---- MODULE Spec2Model ----
(***************************************************************************)
(* Model of the travel tracker (src/App.tsx): the in-memory visit store    *)
(* `userData`, its updaters (toggleVisit, updateDate, addPhotos,           *)
(* removePhoto), the localStorage save effect and the photo upload         *)
(* handler.                                                                *)
(*                                                                         *)
(* JavaScript objects are modelled as functions whose DOMAIN is the set of *)
(* own properties: an absent property is a name outside the DOMAIN.        *)
(* A React state update, the render that follows it and the effects of     *)
(* that render are one step: effects run after each commit with the values *)
(* of that render.                                                         *)
(*                                                                         *)
(* Two further specifications share the module: SpecCompress is the        *)
(* img.onload handler of compressImageToDataUrl over a range of image      *)
(* sizes, and SpecFlags is the flag download script                        *)
(* (src/scripts/download-flags.mjs).  Each specification keeps the         *)
(* variables of the others at their idle values.  SpecExtra is the effect  *)
(* of src/App.tsx that fetches the country extras, and SpecRace is the     *)
(* photo upload with the appends of a second upload in between.            *)
(***************************************************************************)
EXTENDS Integers, Sequences, FiniteSets, TLC

\* ------------------------------------------------------------------ bounds
\* most photos kept in the store at once, and the longest file selection
MaxPhotos == 2
MaxFiles == 3
\* the longest side of the small images, beside the sides in BigSides
MaxSide == 5
\* codes per metadata request (CODES_PER_CHUNK, 25 in the script)
CodesPerChunk == 2
\* how many requests for the country extras are followed
MaxExtraRequests == 4

\* ------------------------------------------------------------------ inputs
Codes == {"FR", "US"}
Dates == {"", "2024-05-01"}
Images == {"img1", "img2"}
Indexes == (0 - 2) .. (MaxPhotos + 1)
\* the files offered by the file picker, in its listing order; "fx" is not
\* a decodable image
Listing == <<"f1", "fx", "f2">>
BadFiles == {"fx"}

VARIABLES
  app,           \* "unmounted", "mounted", or "crashed" (a render threw)
  stored,        \* the localStorage item 'wanderlust_data'
  userData,      \* the userData state of the component
  storageError,  \* the storageError state of the component
  upload,        \* the locals of the latest handleFileChange call
  saved,         \* what the save effect did in the latest step, and the
                 \* storageError it saw
  quota,         \* how many photos the storage quota leaves room for
  image,         \* the decoded image and maxSize of a compressImageToDataUrl call
  canvas,        \* the canvas that call has created
  disk,          \* the codes whose flag file exists in public/flags
  main,          \* the locals of main() of the flag script, and its exit code
  call,          \* the locals of the latest fetchJsonWithRetries or
                 \* downloadWithRetries call
  requests,      \* how many times fetch() has been called
  extra          \* the countryExtraByCode state of the component, its
                 \* localStorage item and the fetch of its effect

appVars == <<app, stored, userData, storageError, upload, saved, quota>>
imageVars == <<image, canvas>>
scriptVars == <<disk, main, call, requests>>

extraVars == <<extra>>

vars == <<appVars, imageVars, scriptVars, extraVars>>

\* ------------------------------------------------------- object helpers
EmptyObject == [k \in {} |-> TRUE]

Put(obj, key, value) ==
  [k \in DOMAIN obj \cup {key} |-> IF k = key THEN value ELSE obj[k]]

\* {...prev[code]}: spreading undefined copies no property
Spread(prev, code) == IF code \in DOMAIN prev THEN prev[code] ELSE EmptyObject

\* prev[code]?.visited read as a condition
VisitedOf(data, code) ==
  IF code \in DOMAIN data /\ "visited" \in DOMAIN data[code]
  THEN data[code].visited ELSE FALSE

\* userData[code]?.photos || []
PhotosOf(data, code) ==
  IF code \in DOMAIN data /\ "photos" \in DOMAIN data[code]
  THEN data[code].photos ELSE <<>>

\* userData[code]?.date || ''
DateOf(data, code) ==
  IF code \in DOMAIN data /\ "date" \in DOMAIN data[code]
  THEN data[code].date ELSE ""

\* ------------------------------------------------------- store updaters
\* mutant: the record is rebuilt without spreading the previous one
toggleVisitNoSpread(prev, code) ==
  Put(prev, code,
      [visited |-> ~VisitedOf(prev, code), photos |-> PhotosOf(prev, code)])

toggleVisit(prev, code) ==
  Put(prev, code,
      Put(Put(Spread(prev, code), "visited", ~VisitedOf(prev, code)),
          "photos", PhotosOf(prev, code)))

updateDate(prev, code, date) ==
  Put(prev, code, Put(Spread(prev, code), "date", date))

DefaultVisit == [visited |-> FALSE, date |-> "", photos |-> <<>>]

\* mutant: no early return for an empty batch
addPhotosNoGuard(prev, code, photoDataUrls) ==
  LET current == IF code \in DOMAIN prev THEN prev[code] ELSE DefaultVisit
      photos == IF "photos" \in DOMAIN current THEN current.photos ELSE <<>>
  IN Put(prev, code, Put(current, "photos", photos \o photoDataUrls))

\* mutant: the record is rebuilt from the default without spreading `current`
addPhotosNoSpread(prev, code, photoDataUrls) ==
  IF Len(photoDataUrls) = 0 THEN prev
  ELSE Put(prev, code,
           Put(DefaultVisit, "photos", PhotosOf(prev, code) \o photoDataUrls))

addPhotos(prev, code, photoDataUrls) ==
  IF Len(photoDataUrls) = 0 THEN prev
  ELSE LET current == IF code \in DOMAIN prev THEN prev[code] ELSE DefaultVisit
           photos == IF "photos" \in DOMAIN current THEN current.photos ELSE <<>>
       IN Put(prev, code, Put(current, "photos", photos \o photoDataUrls))

\* mutant: splice(start) without a delete count removes the whole tail
spliceRest(arr, index) ==
  LET len == Len(arr)
      start == IF index < 0 THEN (IF len + index < 0 THEN 0 ELSE len + index)
               ELSE (IF index > len THEN len ELSE index)
  IN [i \in 1 .. start |-> arr[i]]

\* Array.prototype.splice(start, 1) on a copy: a negative start counts from
\* the end (clamped at 0), a start beyond the end removes nothing.
splice1(arr, index) ==
  LET len == Len(arr)
      start == IF index < 0 THEN (IF len + index < 0 THEN 0 ELSE len + index)
               ELSE (IF index > len THEN len ELSE index)
  IN [i \in 1 .. (IF start < len THEN len - 1 ELSE len) |->
        IF i <= start THEN arr[i] ELSE arr[i + 1]]

\* mutant: the photo before the given index is removed
removePhotoOffByOne(prev, code, index) ==
  Put(prev, code,
      Put(Spread(prev, code), "photos", splice1(PhotosOf(prev, code), index - 1)))

removePhoto(prev, code, index) ==
  Put(prev, code,
      Put(Spread(prev, code), "photos", splice1(PhotosOf(prev, code), index)))

\* ------------------------------------------------------------- storage
\* A localStorage item: missing (getItem gives null), the empty string, text
\* that is not JSON, the JSON literal null, or the JSON text of an object.
Item(kind, doc) == [kind |-> kind, doc |-> doc]
MissingItem == Item("missing", EmptyObject)
EmptyItem == Item("empty", EmptyObject)
CorruptItem == Item("corrupt", EmptyObject)
NullItem == Item("null", EmptyObject)

JSONstringify(data) == Item("object", data)

\* JSON.parse: throws a SyntaxError on text that is not JSON
JSONparse(item) ==
  IF item.kind = "object" THEN [threw |-> FALSE, isNull |-> FALSE, value |-> item.doc]
  ELSE IF item.kind = "null" THEN [threw |-> FALSE, isNull |-> TRUE, value |-> EmptyObject]
  ELSE [threw |-> TRUE, isNull |-> FALSE, value |-> EmptyObject]

\* saved ? JSON.parse(saved) : {}
loadUserData(item) ==
  IF item.kind \in {"missing", "empty"}
  THEN [threw |-> FALSE, isNull |-> FALSE, value |-> EmptyObject]
  ELSE JSONparse(item)

NoError == "none"
SaveFailedNotice == "save_failed"
PhotoFailedNotice == "photo_failed"

RECURSIVE SumPhotos(_, _)
SumPhotos(data, codes) ==
  IF codes = {} THEN 0
  ELSE LET c == CHOOSE x \in codes : TRUE
       IN Len(PhotosOf(data, c)) + SumPhotos(data, codes \ {c})

\* localStorage.setItem throws when the text does not fit the quota; the
\* photos (base64 data URLs) are what fills it.
setItemThrows(data) == SumPhotos(data, DOMAIN data) > quota

\* mutant: the item is written even when setItem throws
saveStoredAlways(data, old) == JSONstringify(data)

\* mutant: a successful save leaves storageError as it was
saveErrorKeeps(data, err) == IF setItemThrows(data) THEN SaveFailedNotice ELSE err

\* the effect on [userData]: try { setItem; if (storageError) clear } catch { set }
saveStored(data, old) == IF setItemThrows(data) THEN old ELSE JSONstringify(data)

saveError(data, err) == IF setItemThrows(data) THEN SaveFailedNotice ELSE NoError

\* ------------------------------------------------------------- upload
IdleUpload == [pc |-> "idle", code |-> "", files |-> <<>>, idx |-> 0, next |-> <<>>]

\* the data URL a decodable image file compresses to
dataUrlOf(file) == IF file = "f1" THEN "img1" ELSE "img2"

\* compressImageToDataUrl rejects (read_failed, image_decode_failed, canvas_failed)
compressFails(file) == file \in BadFiles

\* a selection keeps the order of the listing
FileLists ==
  {fs \in UNION {[1 .. n -> DOMAIN Listing] : n \in 1 .. MaxFiles} :
     \A i, j \in DOMAIN fs : i < j => fs[i] < fs[j]}

FilesOf(sel) == [i \in DOMAIN sel |-> Listing[sel[i]]]

GoodOf(files) == SelectSeq(files, LAMBDA f : ~compressFails(f))

\* ------------------------------------------------------------- actions
SeedData == "US" :> [visited |-> TRUE, date |-> "2024-05-01", photos |-> <<"img1">>]

NoSave == [result |-> "none", had |-> NoError]

InitApp ==
  /\ app = "unmounted"
  /\ stored \in {MissingItem, EmptyItem, CorruptItem, NullItem,
                 JSONstringify(EmptyObject), JSONstringify(SeedData)}
  /\ userData = EmptyObject
  /\ storageError = NoError
  /\ upload = IdleUpload
  /\ saved = NoSave

\* no image is being compressed
NoImage == [width |-> 0, height |-> 0, maxSize |-> 0]
NoCanvas == [state |-> "none", width |-> 0, height |-> 0]

ImageIdle == image = NoImage /\ canvas = NoCanvas

\* the flag script is not running
NoLastError == [attempt |-> 0, why |-> "none"]
NoResult == [kind |-> "none", items |-> {}]
NoCall ==
  [kind |-> "none", signal |-> "none", attempt |-> 0, stage |-> "idle",
   timer |-> "none", elapsed |-> FALSE, cancelled |-> 0,
   lastError |-> NoLastError, wait |-> 0, result |-> NoResult]
NoRun ==
  [pc |-> "idle", registry |-> <<>>, codes |-> <<>>, present |-> {}, part |-> 0,
   flagUrlByCode |-> EmptyObject, answers |-> <<>>, i |-> 0, ok |-> 0,
   failed |-> 0, exitCode |-> 0, why |-> EmptyObject]

ScriptIdle == disk = {} /\ main = NoRun /\ call = NoCall /\ requests = 0

\* the component is not mounted and 'country_extra_v1' was never written
NoExtra ==
  [pc |-> "unmounted", stored |-> MissingItem, byCode |-> EmptyObject,
   loaded |-> EmptyObject, requests |-> 0]

ExtraIdle == extra = NoExtra

\* the quota is never reached within MaxPhotos
Init == InitApp /\ quota = MaxPhotos /\ ImageIdle /\ ScriptIdle /\ ExtraIdle

\* the quota is reached by the last photo that MaxPhotos allows
InitTight == InitApp /\ quota = MaxPhotos - 1 /\ ImageIdle /\ ScriptIdle /\ ExtraIdle

\* mutant: a failed save restores the snapshot of the previous render
CommitRollback(data, err) ==
  /\ userData' = IF setItemThrows(data) THEN userData ELSE data
  /\ stored' = saveStored(data, stored)
  /\ storageError' = saveError(data, err)
  /\ saved' = [result |-> IF setItemThrows(data) THEN "failed" ELSE "ok", had |-> err]

\* a state update to `data` is committed with `err` as storageError, and the
\* effect on [userData] of that render runs
Commit(data, err) ==
  /\ userData' = data
  /\ stored' = saveStored(data, stored)
  /\ storageError' = saveError(data, err)
  /\ saved' = [result |-> IF setItemThrows(data) THEN "failed" ELSE "ok", had |-> err]

\* first render: the useState initializer reads the store; the render throws
\* when the initializer threw or produced null (Object.values(userData))
Mount ==
  /\ app = "unmounted"
  /\ LET r == loadUserData(stored)
     IN IF r.threw \/ r.isNull
        THEN /\ app' = "crashed"
             /\ UNCHANGED <<stored, userData, storageError, saved>>
        ELSE /\ app' = "mounted"
             /\ Commit(r.value, storageError)
  /\ UNCHANGED <<upload, quota, imageVars, scriptVars, extraVars>>

ToggleVisit(code) ==
  /\ app = "mounted"
  /\ Commit(toggleVisit(userData, code), storageError)
  /\ UNCHANGED <<app, upload, quota, imageVars, scriptVars, extraVars>>

UpdateDate(code, date) ==
  /\ app = "mounted"
  /\ Commit(updateDate(userData, code, date), storageError)
  /\ UNCHANGED <<app, upload, quota, imageVars, scriptVars, extraVars>>

RemovePhoto(code, index) ==
  /\ app = "mounted"
  /\ Commit(removePhoto(userData, code, index), storageError)
  /\ UNCHANGED <<app, upload, quota, imageVars, scriptVars, extraVars>>

\* handleFileChange up to its first await (an empty selection returns at once)
HandleFileChange(code, files) ==
  /\ app = "mounted"
  /\ upload.pc # "compressing"
  /\ SumPhotos(userData, DOMAIN userData) + Len(GoodOf(files)) <= MaxPhotos
  /\ upload' = [pc |-> "compressing", code |-> code, files |-> files,
                idx |-> 1, next |-> <<>>]
  /\ saved' = NoSave
  /\ UNCHANGED <<app, stored, userData, storageError, quota, imageVars, scriptVars, extraVars>>

\* mutant: results are collected newest first
pushFront(next, file) ==
  IF compressFails(file) THEN next ELSE <<dataUrlOf(file)>> \o next

\* the array `next` after the awaited compression of `file` has settled
pushResult(next, file) ==
  IF compressFails(file) THEN next ELSE Append(next, dataUrlOf(file))

\* the catch branch reports the file
catchError(err, file) == IF compressFails(file) THEN PhotoFailedNotice ELSE err

\* the compression of a file that is not the last one settles; the loop
\* awaits the next file
CompressSettles ==
  /\ app = "mounted"
  /\ upload.pc = "compressing"
  /\ upload.idx < Len(upload.files)
  /\ LET file == upload.files[upload.idx]
     IN /\ upload' = [upload EXCEPT !.idx = @ + 1, !.next = pushResult(@, file)]
        /\ storageError' = catchError(storageError, file)
  /\ saved' = NoSave
  /\ UNCHANGED <<app, stored, userData, quota, imageVars, scriptVars, extraVars>>

\* the compression of the last file settles: the loop ends and addPhotos runs
\* in the same continuation; with nothing to add no state update is queued
\* and the save effect does not run
LastCompressSettles ==
  /\ app = "mounted"
  /\ upload.pc = "compressing"
  /\ upload.idx = Len(upload.files)
  /\ LET file == upload.files[upload.idx]
         next == pushResult(upload.next, file)
         err == catchError(storageError, file)
     IN /\ upload' = [upload EXCEPT !.pc = "done", !.next = next]
        /\ IF Len(next) = 0
           THEN /\ storageError' = err
                /\ saved' = NoSave
                /\ UNCHANGED <<stored, userData>>
           ELSE Commit(addPhotos(userData, upload.code, next), err)
  /\ UNCHANGED <<app, quota, imageVars, scriptVars, extraVars>>

Next ==
  \/ Mount
  \/ \E code \in Codes : ToggleVisit(code)
  \/ \E code \in Codes, date \in Dates : UpdateDate(code, date)
  \/ \E code \in Codes, index \in Indexes : RemovePhoto(code, index)
  \/ \E code \in Codes, sel \in FileLists : HandleFileChange(code, FilesOf(sel))
  \/ CompressSettles
  \/ LastCompressSettles

Spec == Init /\ [][Next]_vars

\* the same program with a storage quota that the store can exceed; the user
\* enters one date and uploads a single file or the whole listing
NextTight ==
  \/ Mount
  \/ \E code \in Codes : ToggleVisit(code)
  \/ \E code \in Codes : UpdateDate(code, "2024-05-01")
  \/ \E code \in Codes, index \in Indexes : RemovePhoto(code, index)
  \/ \E code \in Codes, sel \in {<<1>>, <<1, 2, 3>>} : HandleFileChange(code, FilesOf(sel))
  \/ CompressSettles
  \/ LastCompressSettles

SpecTight == InitTight /\ [][NextTight]_vars

\* a second handleFileChange call, made while the first is still compressing,
\* has compressed its files and calls addPhotos; until then it has only
\* touched its own locals
OtherUploadAppends(code, photoDataUrls) ==
  /\ app = "mounted"
  /\ upload.pc = "compressing"
  /\ SumPhotos(userData, DOMAIN userData) + Len(photoDataUrls)
       + Len(GoodOf(upload.files)) <= MaxPhotos
  /\ Commit(addPhotos(userData, code, photoDataUrls), storageError)
  /\ UNCHANGED <<app, upload, quota, imageVars, scriptVars, extraVars>>

\* the upload of the first file, the first two files or the whole listing,
\* with the other store operations and the append of a second upload in
\* between
NextRace ==
  \/ Mount
  \/ \E code \in Codes : ToggleVisit(code)
  \/ \E code \in Codes : UpdateDate(code, "2024-05-01")
  \/ \E code \in Codes : RemovePhoto(code, 0)
  \/ \E code \in Codes, sel \in {<<1>>, <<1, 2>>, <<1, 2, 3>>} : HandleFileChange(code, FilesOf(sel))
  \/ CompressSettles
  \/ LastCompressSettles
  \/ \E code \in Codes : OtherUploadAppends(code, <<"img2">>)

SpecRace == Init /\ [][NextRace]_vars

\* ------------------------------------------------- image compression
\* the maxSize default of compressImageToDataUrl
DefaultMaxSize == 1600

Max(a, b) == IF a >= b THEN a ELSE b
Min(a, b) == IF a <= b THEN a ELSE b

\* sides of camera-sized images, around and beyond DefaultMaxSize
BigSides == {DefaultMaxSize - 1, DefaultMaxSize, 2 * DefaultMaxSize + 1, 4032}
Sides == (1 .. MaxSide) \cup BigSides
MaxSizes == (1 .. MaxSide) \cup {DefaultMaxSize}

\* Math.min(1, maxSize / Math.max(width, height)) as a fraction <<num, den>>
scaleOf(width, height, maxSize) ==
  IF maxSize >= Max(width, height) THEN <<1, 1>>
  ELSE <<maxSize, Max(width, height)>>

\* Math.round(num / den): the nearest integer, halves upwards
MathRound(num, den) == (2 * num + den) \div (2 * den)

targetDimNoFloor(side, scale) == MathRound(side * scale[1], scale[2])

\* Math.max(1, Math.round(side * scale))
targetDim(side, scale) == Max(1, MathRound(side * scale[1], scale[2]))

\* img.onload: the canvas gets the target size, then either no 2d context
\* is available (reject 'canvas_failed') or the image is drawn and encoded
ImgOnload(ctxOk) ==
  /\ image # NoImage
  /\ canvas.state = "none"
  /\ LET scale == scaleOf(image.width, image.height, image.maxSize)
     IN canvas' = [state |-> IF ctxOk THEN "drawn" ELSE "canvas_failed",
                   width |-> targetDim(image.width, scale),
                   height |-> targetDim(image.height, scale)]
  /\ UNCHANGED <<appVars, image, scriptVars, extraVars>>

InitCompress ==
  /\ InitApp /\ quota = MaxPhotos /\ ScriptIdle /\ ExtraIdle
  /\ image \in [width : Sides, height : Sides, maxSize : MaxSizes]
  /\ canvas = NoCanvas

NextCompress == \E ctxOk \in BOOLEAN : ImgOnload(ctxOk)

SpecCompress == InitCompress /\ [][NextCompress]_vars

\* ------------------------------------------------------------ flag script
RETRIES == 3
\* the factors of the waits between attempts, in milliseconds
JsonRetryDelayMs == 500
DownloadRetryDelayMs == 400

\* the country codes in the order Array.prototype.sort gives them
Alphabet == <<"FR", "JP", "US">>
FlagCodes == {Alphabet[k] : k \in DOMAIN Alphabet}

\* the codes the regular expression matches in constants.ts, in file order
Registries == {<<"US", "FR", "JP", "FR">>, <<"JP", "FR">>}

Range(seq) == {seq[k] : k \in DOMAIN seq}

\* the matches are collected in a Set and sorted
getCountryCodesFromConstants(matches) ==
  SelectSeq(Alphabet, LAMBDA c : c \in Range(matches))

chunk(arr, size) ==
  [k \in 1 .. ((Len(arr) + size - 1) \div size) |->
     SubSeq(arr, (k - 1) * size + 1, Min(k * size, Len(arr)))]

\* the part of the codes that main.part is being looked up
PartCodes == Range(chunk(main.codes, CodesPerChunk)[main.part])

\* the svg URL the endpoint gives for a code
SvgOf(code) == <<"svg", code>>

\* fetchWithTimeout: fetch() is called with the controller's signal and the
\* abort timer is armed
fetchWithTimeout(c, attempt) ==
  [c EXCEPT !.attempt = attempt, !.stage = "fetching", !.timer = "armed",
            !.elapsed = FALSE]

\* the first attempt of fetchJsonWithRetries / downloadWithRetries; both call
\* fetchWithTimeout(url) without a signal
startCall(kind) == fetchWithTimeout([NoCall EXCEPT !.kind = kind, !.signal = "none"], 1)

\* sleep(500 * attempt) and sleep(400 * attempt)
retryDelay(kind, attempt) ==
  IF kind = "json" THEN JsonRetryDelayMs * attempt ELSE DownloadRetryDelayMs * attempt

\* the catch of the retry loop: the timer was cleared by the finally of
\* fetchWithTimeout if it was still armed, the error is kept and the loop
\* sleeps
catchAttempt(c, why) ==
  [c EXCEPT !.stage = "sleeping", !.timer = "cleared", !.elapsed = FALSE,
            !.lastError = [attempt |-> c.attempt, why |-> why],
            !.wait = retryDelay(c.kind, c.attempt)]

nextAttemptAlways(c) == fetchWithTimeout(c, c.attempt + 1)

\* the end of the sleep: the loop goes round, or ends and `throw lastError`
nextAttempt(c) ==
  IF c.attempt < RETRIES THEN fetchWithTimeout(c, c.attempt + 1)
  ELSE [c EXCEPT !.stage = "threw"]

exitCodeOfSeveral(failed) == IF failed > 1 THEN 1 ELSE 0

\* if (failed > 0) process.exitCode = 1
exitCodeOf(failed) == IF failed > 0 THEN 1 ELSE 0

CountedOkOnly(m, counter, why) ==
  LET m1 == [m EXCEPT !.ok = IF counter = "ok" THEN @ + 1 ELSE @,
                      !.why = Put(@, m.codes[m.i], why),
                      !.i = @ + 1]
  IN IF m.i < Len(m.codes) THEN [m1 EXCEPT !.pc = "access"]
     ELSE [m1 EXCEPT !.pc = "done", !.exitCode = exitCodeOf(m1.failed)]

\* ok += 1 or failed += 1 for codes[i], then the next turn of the loop or,
\* after the last code, the summary and the exit code
Counted(m, counter, why) ==
  LET m1 == [m EXCEPT !.ok = IF counter = "ok" THEN @ + 1 ELSE @,
                      !.failed = IF counter = "failed" THEN @ + 1 ELSE @,
                      !.why = Put(@, m.codes[m.i], why),
                      !.i = @ + 1]
  IN IF m.i < Len(m.codes) THEN [m1 EXCEPT !.pc = "access"]
     ELSE [m1 EXCEPT !.pc = "done", !.exitCode = exitCodeOf(m1.failed)]

\* main() up to the first request of getFlagUrlByCode
StartRun ==
  /\ main.pc = "start"
  /\ LET codes == getCountryCodesFromConstants(main.registry)
     IN main' = [main EXCEPT !.pc = "resolving", !.codes = codes,
                             !.present = disk \cap Range(codes), !.part = 1]
  /\ call' = startCall("json")
  /\ requests' = requests + 1
  /\ UNCHANGED <<appVars, imageVars, extraVars, disk>>

\* the response headers arrive: fetch resolves, the finally clears the timer
FetchResolves(okStatus) ==
  /\ call.stage = "fetching"
  /\ call' = IF okStatus THEN [call EXCEPT !.stage = "reading", !.timer = "cleared"]
             ELSE catchAttempt(call, "status")
  /\ UNCHANGED <<appVars, imageVars, extraVars, disk, main, requests>>

\* fetch rejects with a network error
FetchRejects ==
  /\ call.stage = "fetching"
  /\ call' = catchAttempt(call, "network")
  /\ UNCHANGED <<appVars, imageVars, extraVars, disk, main, requests>>

\* REQUEST_TIMEOUT_MS have passed since the attempt began: an armed timer
\* aborts the fetch, a cleared one does nothing
TimeoutElapses ==
  /\ call.stage \in {"fetching", "reading"}
  /\ ~call.elapsed
  /\ call' = IF call.timer = "armed" THEN catchAttempt(call, "timeout")
             ELSE [call EXCEPT !.elapsed = TRUE]
  /\ UNCHANGED <<appVars, imageVars, extraVars, disk, main, requests>>

\* the caller's side raises a cancellation while an attempt is in flight;
\* it reaches the fetch only through a signal handed to fetchWithTimeout
ExternalAbort ==
  /\ call.stage \in {"fetching", "reading"}
  /\ call.cancelled = 0
  /\ call' = [IF call.signal = "external" /\ call.timer = "armed"
                THEN catchAttempt(call, "aborted") ELSE call
              EXCEPT !.cancelled = call.attempt]
  /\ UNCHANGED <<appVars, imageVars, extraVars, disk, main, requests>>

\* the bodies res.json() can give for a part: an array with an item (code and
\* svg URL) for some of the codes asked for, or a value that is not iterable
JsonBodies(codes) ==
  {[kind |-> "array", items |-> its] : its \in SUBSET codes}
    \cup {[kind |-> "object", items |-> {}]}

BytesBody == [kind |-> "bytes", items |-> {}]

\* res.json() or res.arrayBuffer() resolves: the call returns
BodyCompletes(data) ==
  /\ call.stage = "reading"
  /\ data \in IF call.kind = "json" THEN JsonBodies(PartCodes) ELSE {BytesBody}
  /\ call' = [call EXCEPT !.stage = "returned", !.result = data, !.elapsed = FALSE]
  /\ UNCHANGED <<appVars, imageVars, extraVars, disk, main, requests>>

\* res.json() or res.arrayBuffer() rejects
BodyFails ==
  /\ call.stage = "reading"
  /\ call' = catchAttempt(call, "body")
  /\ UNCHANGED <<appVars, imageVars, extraVars, disk, main, requests>>

SleepEnds ==
  /\ call.stage = "sleeping"
  /\ call' = nextAttempt(call)
  /\ requests' = IF call'.stage = "fetching" THEN requests + 1 ELSE requests
  /\ UNCHANGED <<appVars, imageVars, extraVars, disk, main>>

NextPartFirstOnly(m) ==
  /\ main' = [m EXCEPT !.pc = "access", !.i = 1]
  /\ call' = NoCall
  /\ UNCHANGED requests

\* the next turn of the loop over the parts, or the return of the map and
\* the first turn of the loop over the codes
NextPart(m) ==
  IF m.part < Len(chunk(m.codes, CodesPerChunk))
  THEN /\ main' = [m EXCEPT !.part = @ + 1]
       /\ call' = startCall("json")
       /\ requests' = requests + 1
  ELSE /\ main' = [m EXCEPT !.pc = "access", !.i = 1]
       /\ call' = NoCall
       /\ UNCHANGED requests

mergeItemsNone(map, items) == map

\* for (const item of data) map.set(code.toUpperCase(), svg)
mergeItems(map, items) ==
  [c \in DOMAIN map \cup items |-> IF c \in items THEN SvgOf(c) ELSE map[c]]

\* fetchJsonWithRetries returned to getFlagUrlByCode: the items go into the
\* map; a body that is not iterable throws out of getFlagUrlByCode into the
\* catch of main, which sets the exit code and returns
ResolveReturns ==
  /\ main.pc = "resolving"
  /\ call.stage = "returned"
  /\ IF call.result.kind = "array"
     THEN NextPart([main EXCEPT
                      !.flagUrlByCode = mergeItems(@, call.result.items),
                      !.answers = Append(@, [failed |-> FALSE, items |-> call.result.items])])
     ELSE /\ main' = [main EXCEPT !.pc = "aborted", !.exitCode = 1]
          /\ call' = NoCall
          /\ UNCHANGED requests
  /\ UNCHANGED <<appVars, imageVars, extraVars, disk>>

\* fetchJsonWithRetries threw: the catch in getFlagUrlByCode logs and continues
ResolveThrows ==
  /\ main.pc = "resolving"
  /\ call.stage = "threw"
  /\ NextPart([main EXCEPT !.answers = Append(@, [failed |-> TRUE, items |-> {}])])
  /\ UNCHANGED <<appVars, imageVars, extraVars, disk>>

fileExistsNever(code, files) == FALSE

\* fs.access(outPath) resolves when the file of the code is there
fileExists(code, files) == code \in files

\* fs.access settles for codes[i]
AccessSettles ==
  /\ main.pc = "access"
  /\ LET code == main.codes[main.i]
     IN IF fileExists(code, disk)
        THEN main' = Counted(main, "ok", "existed")
             /\ UNCHANGED <<call, requests>>
        ELSE IF code \notin DOMAIN main.flagUrlByCode
        THEN main' = Counted(main, "failed", "nourl")
             /\ UNCHANGED <<call, requests>>
        ELSE /\ main' = [main EXCEPT !.pc = "downloading"]
             /\ call' = startCall("bytes")
             /\ requests' = requests + 1
  /\ UNCHANGED <<appVars, imageVars, extraVars, disk>>

\* downloadWithRetries returned the bytes: fs.writeFile is called
DownloadReturns ==
  /\ main.pc = "downloading"
  /\ call.stage = "returned"
  /\ main' = [main EXCEPT !.pc = "writing"]
  /\ call' = NoCall
  /\ UNCHANGED <<appVars, imageVars, extraVars, disk, requests>>

\* downloadWithRetries threw
DownloadThrows ==
  /\ main.pc = "downloading"
  /\ call.stage = "threw"
  /\ main' = Counted(main, "failed", "download")
  /\ call' = NoCall
  /\ UNCHANGED <<appVars, imageVars, extraVars, disk, requests>>

\* fs.writeFile settles
WriteSettles(written) ==
  /\ main.pc = "writing"
  /\ IF written
     THEN /\ disk' = disk \cup {main.codes[main.i]}
          /\ main' = Counted(main, "ok", "written")
     ELSE /\ UNCHANGED disk
          /\ main' = Counted(main, "failed", "write")
  /\ UNCHANGED <<appVars, imageVars, extraVars, call, requests>>

InitFlags ==
  /\ InitApp /\ stored = MissingItem /\ quota = MaxPhotos /\ ImageIdle /\ ExtraIdle
  /\ disk \in SUBSET FlagCodes
  /\ main \in {[NoRun EXCEPT !.pc = "start", !.registry = r] : r \in Registries}
  /\ call = NoCall
  /\ requests = 0

NextFlags ==
  \/ StartRun
  \/ \E okStatus \in BOOLEAN : FetchResolves(okStatus)
  \/ FetchRejects
  \/ TimeoutElapses
  \/ ExternalAbort
  \/ \E data \in JsonBodies(FlagCodes) \cup {BytesBody} : BodyCompletes(data)
  \/ BodyFails
  \/ SleepEnds
  \/ ResolveReturns
  \/ ResolveThrows
  \/ AccessSettles
  \/ DownloadReturns
  \/ DownloadThrows
  \/ \E written \in BOOLEAN : WriteSettles(written)

SpecFlags == InitFlags /\ [][NextFlags]_vars

\* the steps that do not wait for the network: continuations of main, file
\* system calls, and the timers (the abort timer and the sleeps)
OwnSteps ==
  \/ StartRun
  \/ TimeoutElapses
  \/ SleepEnds
  \/ ResolveReturns
  \/ ResolveThrows
  \/ AccessSettles
  \/ DownloadReturns
  \/ DownloadThrows
  \/ \E written \in BOOLEAN : WriteSettles(written)

\* the script with timers that fire and continuations that run; the
\* endpoint may answer, fail or stay silent at any point
SpecFlagsFair == InitFlags /\ [][NextFlags]_vars /\ WF_vars(OwnSteps)

\* ---------------------------------------------------------- country extras
ExtraCodes == {"FR", "JP", "US"}

\* the object `next` built from the items of the answer that have a code
extraOf(items) == [c \in items |-> <<"extra", c>>]

\* cached ? JSON.parse(cached) : {}
loadExtra(item) == IF item.kind = "missing" THEN EmptyObject ELSE JSONparse(item).value

\* the effect on [countryExtraByCode]: it returns when the object has a key
\* and calls fetch otherwise
effectOf(e) ==
  IF DOMAIN e.byCode # {} THEN [e EXCEPT !.pc = "idle"]
  ELSE [e EXCEPT !.pc = "fetching", !.requests = @ + 1]

\* first render and its effect
MountExtra ==
  /\ extra.pc = "unmounted"
  /\ LET cached == loadExtra(extra.stored)
     IN extra' = effectOf([extra EXCEPT !.byCode = cached, !.loaded = cached])
  /\ UNCHANGED <<appVars, imageVars, scriptVars>>

\* fetch resolves: `if (!res.ok) return`, or res.json() is awaited
ExtraResponds(okStatus) ==
  /\ extra.pc = "fetching"
  /\ extra' = [extra EXCEPT !.pc = IF okStatus THEN "reading" ELSE "idle"]
  /\ UNCHANGED <<appVars, imageVars, scriptVars>>

\* fetch or res.json() rejects: the catch returns
ExtraRejects ==
  /\ extra.pc \in {"fetching", "reading"}
  /\ extra' = [extra EXCEPT !.pc = "idle"]
  /\ UNCHANGED <<appVars, imageVars, scriptVars>>

\* res.json() resolves.  A body that is not iterable throws into the catch.
\* Otherwise setCountryExtraByCode(next) and setItem run (a setItem that
\* throws is caught), the component renders with the new object and the
\* effect runs again
ExtraBodyCompletes(data, setItemOk) ==
  /\ extra.pc = "reading"
  /\ IF data.kind # "array"
     THEN extra' = [extra EXCEPT !.pc = "idle"]
     ELSE LET next == extraOf(data.items)
              e == effectOf([extra EXCEPT
                               !.byCode = next,
                               !.stored = IF setItemOk THEN JSONstringify(next) ELSE @])
          IN /\ e.requests <= MaxExtraRequests
             /\ extra' = e
  /\ UNCHANGED <<appVars, imageVars, scriptVars>>

InitExtra ==
  /\ InitApp /\ stored = MissingItem /\ quota = MaxPhotos /\ ImageIdle /\ ScriptIdle
  /\ extra \in {[NoExtra EXCEPT !.stored = it] :
                  it \in {MissingItem} \cup {JSONstringify(extraOf(its)) : its \in SUBSET ExtraCodes}}

NextExtra ==
  \/ MountExtra
  \/ \E okStatus \in BOOLEAN : ExtraResponds(okStatus)
  \/ ExtraRejects
  \/ \E data \in JsonBodies(ExtraCodes), setItemOk \in BOOLEAN :
       ExtraBodyCompletes(data, setItemOk)

SpecExtra == InitExtra /\ [][NextExtra]_vars

\* ------------------------------------------------------------- claims
Mounted == app = "mounted"

\* the photo batches the claims apply addPhotos to
ImageSeqs == UNION {[1 .. n -> Images] : n \in 0 .. 2}

HasOwn(data, code, field) == code \in DOMAIN data /\ field \in DOMAIN data[code]

\* C1: toggleVisit applied twice to a code gives a record whose visited value
\* is the original one (no record counting as not visited), with the date and
\* the photo sequence of that code as they were.
ToggleTwiceRestores ==
  Mounted =>
    \A code \in Codes :
      LET twice == toggleVisit(toggleVisit(userData, code), code)
      IN /\ code \in DOMAIN twice
         /\ VisitedOf(twice, code) = VisitedOf(userData, code)
         /\ HasOwn(twice, code, "date") = HasOwn(userData, code, "date")
         /\ DateOf(twice, code) = DateOf(userData, code)
         /\ PhotosOf(twice, code) = PhotosOf(userData, code)

\* a country that was toggled to visited and has a date and two photos
ToggledRecordWitness ==
  /\ Mounted
  /\ VisitedOf(userData, "FR")
  /\ DateOf(userData, "FR") = "2024-05-01"
  /\ PhotosOf(userData, "FR") = <<"img1", "img2">>

\* C2: addPhotos appends the images in input order to the photo sequence of
\* the code (creating the record if absent) and leaves every other code's
\* record as it was; with no images the snapshot is unchanged and no record
\* is created.
AddPhotosAppends ==
  Mounted =>
    \A code \in Codes, urls \in ImageSeqs :
      LET out == addPhotos(userData, code, urls)
      IN IF urls = <<>>
         THEN out = userData
         ELSE /\ code \in DOMAIN out
              /\ PhotosOf(out, code) = PhotosOf(userData, code) \o urls
              /\ \A other \in Codes \ {code} :
                   /\ (other \in DOMAIN out) = (other \in DOMAIN userData)
                   /\ other \in DOMAIN userData => out[other] = userData[other]

\* an upload has appended two photos to FR while US has a record, and FR
\* alone has none
AddPhotosWitness ==
  /\ Mounted
  /\ upload.pc = "done" /\ upload.code = "FR" /\ upload.next = <<"img1", "img2">>
  /\ PhotosOf(userData, "FR") = <<"img1", "img2">>
  /\ "US" \in DOMAIN userData

\* C3: addPhotos of one image followed by removePhoto at the index where it
\* was appended (the previous length) restores the photo sequence of the code.
AddThenRemoveRestores ==
  Mounted =>
    \A code \in Codes, x \in Images :
      LET before == PhotosOf(userData, code)
          added == addPhotos(userData, code, <<x>>)
      IN PhotosOf(removePhoto(added, code, Len(before)), code) = before

\* the upload appended img2 after img1 of the stored record and a removal
\* has since taken it away again
AddThenRemoveWitness ==
  /\ Mounted
  /\ upload.pc = "done" /\ upload.code = "US" /\ upload.next = <<"img2">>
  /\ PhotosOf(userData, "US") = <<"img1">>
  /\ saved.result = "ok"

\* C4: removePhoto with an index outside 0..length-1 (negative, the length,
\* larger, or with no record) leaves the photo sequence of the code unchanged.
RemoveOutOfBoundsIsNoOp ==
  Mounted =>
    \A code \in Codes, index \in Indexes :
      (index < 0 \/ index >= Len(PhotosOf(userData, code))) =>
        PhotosOf(removePhoto(userData, code, index), code) = PhotosOf(userData, code)

\* C5 (as claimed): setDate and removePhoto applied twice with the same
\* arguments give the same snapshot as applied once.
SetDateAndRemoveIdempotent ==
  Mounted =>
    /\ \A code \in Codes, date \in Dates :
         updateDate(updateDate(userData, code, date), code, date)
           = updateDate(userData, code, date)
    /\ \A code \in Codes, index \in Indexes :
         removePhoto(removePhoto(userData, code, index), code, index)
           = removePhoto(userData, code, index)

\* C5 (amended): setDate is idempotent; removePhoto(code, i) applied twice
\* equals applied once exactly when the first call leaves no photo for the
\* second to remove: for i >= 0 when i >= length-1, for i < 0 (counted from
\* the end) when the sequence has at most one photo.
SetDateIdempotentRemoveAtEnd ==
  Mounted =>
    /\ \A code \in Codes, date \in Dates :
         updateDate(updateDate(userData, code, date), code, date)
           = updateDate(userData, code, date)
    /\ \A code \in Codes, index \in Indexes :
         LET len == Len(PhotosOf(userData, code))
             once == removePhoto(userData, code, index)
         IN (removePhoto(once, code, index) = once)
              <=> (IF index < 0 THEN len <= 1 ELSE index >= len - 1)

\* FR has a date and holds two photos, so that a second removal at index 0
\* finds a photo again
TwoPhotosDatedWitness ==
  /\ Mounted
  /\ DateOf(userData, "FR") = "2024-05-01"
  /\ Len(PhotosOf(userData, "FR")) = 2

\* every snapshot one call of a store operation can produce from `data`
Updates(data) ==
  {toggleVisit(data, code) : code \in Codes}
    \cup {updateDate(data, code, date) : code \in Codes, date \in Dates}
    \cup {removePhoto(data, code, index) : code \in Codes, index \in Indexes}
    \cup {addPhotos(data, code, urls) : code \in Codes, urls \in ImageSeqs}

\* the in-memory snapshot is ahead of the stored one
Unsaved == Mounted /\ stored # JSONstringify(userData)

\* C6: a failed save does not roll the in-memory snapshot back (it is still
\* the snapshot that did not fit, not the stored one), and while a failure is
\* outstanding every store operation still produces its result from the
\* in-memory snapshot.
NoRollbackAfterFailedSave ==
  /\ [](saved.result = "failed" => setItemThrows(userData) /\ Unsaved)
  /\ [][(Unsaved /\ saved'.result # "none") => userData' \in Updates(userData)]_vars

\* an operation was applied while the capacity notice of an earlier failed
\* save was showing
OperationAfterFailureWitness ==
  /\ Mounted
  /\ saved.result = "failed"
  /\ saved.had = SaveFailedNotice

\* C7: right after a successful save no capacity error is reported.
SuccessfulSaveClearsError ==
  saved.result = "ok" => storageError # SaveFailedNotice

\* a save has succeeded in a render that showed the capacity notice
SaveAfterFailureWitness ==
  /\ Mounted
  /\ saved.result = "ok"
  /\ saved.had = SaveFailedNotice

\* C8: load gives the empty snapshot, and the first render does not throw,
\* whenever the stored item is missing or is not the text of a snapshot.
LoadToleratesBadContent ==
  [][(app = "unmounted" /\ stored.kind # "object")
       => (app' = "mounted" /\ userData' = EmptyObject)]_vars

\* C9: the stored item only ever changes to the complete serialization of
\* the current in-memory snapshot: a successful save makes it that, a failed
\* save leaves the previous item.
SaveIsAllOrNothing ==
  [][/\ saved'.result = "ok" => stored' = JSONstringify(userData')
     /\ saved'.result = "failed" => stored' = stored
     /\ stored' = stored \/ stored' = JSONstringify(userData')]_vars

\* a failed save has left the serialization of an earlier snapshot in place
FailedSaveKeepsItemWitness ==
  /\ Mounted
  /\ saved.result = "failed"
  /\ stored.kind = "object"
  /\ stored # JSONstringify(userData)
  /\ PhotosOf(stored.doc, "FR") = <<"img1">>

UrlsOf(files) == [i \in DOMAIN files |-> dataUrlOf(files[i])]

\* C10: an upload in flight can always take its next step, whichever files
\* have failed, and when its last file has settled the photos appended to the
\* code are the data URLs of the files that compressed, in selection order.
UploadAppendsSurvivors ==
  /\ [](upload.pc = "compressing" => ENABLED (CompressSettles \/ LastCompressSettles))
  /\ [][(upload.pc = "compressing" /\ upload'.pc = "done") =>
          PhotosOf(userData', upload.code)
            = PhotosOf(userData, upload.code) \o UrlsOf(GoodOf(upload.files))]_vars

\* the whole listing was uploaded: its second file failed and the other two
\* were appended in order
UploadWithFailureWitness ==
  /\ Mounted
  /\ upload.pc = "done"
  /\ upload.files = <<"f1", "fx", "f2">>
  /\ PhotosOf(userData, upload.code) = <<"img1", "img2">>
  /\ saved.result = "ok"

\* C11: when a file of the selection failed to compress, the photo notice is
\* showing once the last file has settled and the save of the appended
\* photos has run.
UploadFailureNoticeSurfaced ==
  [][(upload.pc = "compressing" /\ upload'.pc = "done"
        /\ GoodOf(upload.files) # upload.files)
       => storageError' = PhotoFailedNotice]_vars

\* C12: the canvas of a decoded image of width w and height h has the sides
\* max(1, round(w*s)) and max(1, round(h*s)) with s = min(1, maxSize/max(w,h)):
\* each side is the integer nearest to the scaled side (or 1 when that is 0),
\* the larger side is at most maxSize, both sides are at least 1, and an
\* image within maxSize keeps its sides.
IsNearest(t, side, d, m) ==
  \/ t = 1 /\ 2 * side * d < m
  \/ 2 * m * t - m <= 2 * side * d /\ 2 * side * d < 2 * m * t + m

CompressTargetDimensions ==
  canvas.state # "none" =>
    LET w == image.width
        h == image.height
        d == image.maxSize
        m == Max(w, h)
    IN /\ canvas.width >= 1 /\ canvas.height >= 1
       /\ Max(canvas.width, canvas.height) <= d
       /\ m <= d => canvas.width = w /\ canvas.height = h
       /\ m > d => IsNearest(canvas.width, w, d, m) /\ IsNearest(canvas.height, h, d, m)

\* a wide image was scaled down and its short side, which rounds to 0, is 1
CompressScaledWitness ==
  /\ canvas.state = "drawn"
  /\ image.width > image.maxSize
  /\ 2 * image.height * image.maxSize < image.width
  /\ canvas.width = image.maxSize
  /\ canvas.height = 1

BaseDelayOf(kind) == IF kind = "json" THEN JsonRetryDelayMs ELSE DownloadRetryDelayMs

\* C13: a call of fetchJsonWithRetries or downloadWithRetries makes at most
\* RETRIES attempts; the attempt that returns is the first that did not fail;
\* the wait after failed attempt n is n times the base delay; and the call
\* throws only after attempt RETRIES, with the error of that attempt.
RetryAtMostThreeLastErrorSurfaces ==
  /\ call.attempt \in 0 .. RETRIES
  /\ call.stage = "returned" => call.lastError.attempt = call.attempt - 1
  /\ call.stage = "sleeping" =>
       /\ call.lastError.attempt = call.attempt
       /\ call.wait = call.attempt * BaseDelayOf(call.kind)
  /\ call.stage = "threw" =>
       /\ call.attempt = RETRIES
       /\ call.lastError.attempt = RETRIES

\* a download's three attempts failed, the last by its timeout, and the call
\* threw after the third wait
RetriesExhaustedWitness ==
  /\ call.kind = "bytes"
  /\ call.stage = "threw"
  /\ call.lastError = [attempt |-> RETRIES, why |-> "timeout"]
  /\ call.wait = RETRIES * DownloadRetryDelayMs

\* C14: once an external cancellation was raised during an attempt of a
\* call, the call makes no attempt after that one.
CancellationStopsRetries ==
  call.cancelled > 0 => call.attempt = call.cancelled

\* C15: no attempt is still in flight, waiting for the response or reading
\* the body, once the timeout has elapsed since it began.
TimeoutCancelsAttempt ==
  ~(call.elapsed /\ call.stage \in {"fetching", "reading"})

Started == main.pc \notin {"idle", "start"}
Ended == main.pc \in {"done", "aborted"}
Resolved == main.pc \in {"access", "downloading", "writing", "done"}

\* C16: a run that found the file of every code in place makes no request
\* at all and ends with every code succeeded, none failed and exit code 0.
PopulatedRunIsOffline ==
  (Started /\ Range(main.codes) \subseteq main.present) =>
    /\ requests = 0
    /\ Ended => /\ main.ok = Len(main.codes)
                /\ main.failed = 0
                /\ main.exitCode = 0

AllPartsFailed ==
  /\ Len(main.answers) = Len(chunk(main.codes, CodesPerChunk))
  /\ \A k \in DOMAIN main.answers : main.answers[k].failed

\* C18: when every part of the metadata lookup failed, the run is aborted
\* before the loop over the codes, with a non-zero exit code and no code
\* counted failed.
NoUrlAtAllAborts ==
  (Started /\ main.pc # "resolving" /\ AllPartsFailed) =>
    /\ main.pc = "aborted"
    /\ main.exitCode # 0
    /\ main.failed = 0

Missing == Range(main.codes) \ main.present

\* C19 as stated: at the summary ok + failed is the number of codes, ok
\* counts the codes whose file existed or was downloaded and written, and
\* failed counts the codes whose file was missing and that had no URL or
\* whose download failed.
CountedOnceSucceededOrFailed ==
  main.pc = "done" =>
    /\ main.ok + main.failed = Len(main.codes)
    /\ main.ok = Cardinality(main.present \cup (Missing \cap disk))
    /\ main.failed =
         Cardinality({c \in Missing : \/ c \notin DOMAIN main.flagUrlByCode
                                      \/ main.why[c] = "download"})

\* C19 amended: failed also counts the codes whose file was missing and
\* whose write failed after the download.
CountedOnceWriteFailureFails ==
  main.pc = "done" =>
    /\ main.ok + main.failed = Len(main.codes)
    /\ main.ok = Cardinality(main.present \cup (Missing \cap disk))
    /\ main.failed =
         Cardinality({c \in Missing : \/ c \notin DOMAIN main.flagUrlByCode
                                      \/ main.why[c] \in {"download", "write"}})

\* three codes, none on disk: one written, one without URL and one whose
\* write failed give 1 succeeded and 2 failed
WriteFailureCountedWitness ==
  /\ main.pc = "done"
  /\ Len(main.codes) = 3
  /\ main.present = {}
  /\ \E c \in Missing : main.why[c] = "write"
  /\ \E c \in Missing : c \notin DOMAIN main.flagUrlByCode
  /\ main.ok = 1
  /\ main.failed = 2

Parts == chunk(main.codes, CodesPerChunk)
SomePartFailed == \E k \in DOMAIN main.answers : main.answers[k].failed

\* C20 as stated: after a part failed, every part was still looked up and
\* the codes without URL are exactly the codes of the failed parts.
FailedBatchOnlyLosesItsCodes ==
  (Resolved /\ SomePartFailed) =>
    /\ Len(main.answers) = Len(Parts)
    /\ \A c \in Range(main.codes) :
         c \notin DOMAIN main.flagUrlByCode <=>
           \E k \in DOMAIN Parts : c \in Range(Parts[k]) /\ main.answers[k].failed

\* C20 amended: the codes without URL are the codes of the failed parts and
\* the codes the answered parts gave no item for.
FailedBatchLosesItsCodesAndOmitted ==
  (Resolved /\ SomePartFailed) =>
    /\ Len(main.answers) = Len(Parts)
    /\ \A c \in Range(main.codes) :
         c \notin DOMAIN main.flagUrlByCode <=>
           \E k \in DOMAIN Parts :
             /\ c \in Range(Parts[k])
             /\ main.answers[k].failed \/ c \notin main.answers[k].items

\* the first part failed, the second was answered and its code has its URL
LaterPartAnsweredWitness ==
  /\ main.pc = "access"
  /\ Len(main.answers) = 2
  /\ main.answers[1].failed
  /\ ~main.answers[2].failed
  /\ DOMAIN main.flagUrlByCode = Range(Parts[2])

\* C21: when the loop over the codes reaches a code whose file exists, the
\* code is counted succeeded, no request is issued and no write is started;
\* a write is only ever started for a code without a file, and no file on
\* disk goes away.
ExistingFileUntouched ==
  [][/\ (main.pc = "access" /\ main.codes[main.i] \in disk) =>
          /\ main'.ok = main.ok + 1
          /\ main'.failed = main.failed
          /\ requests' = requests
          /\ call' = call
          /\ main'.pc \in {"access", "done"}
          /\ disk' = disk
     /\ main'.pc \in {"downloading", "writing"} => main'.codes[main'.i] \notin disk'
     /\ disk \subseteq disk']_vars

\* a run ended in which one code was skipped because its file existed and
\* another was downloaded and written
SkippedAndWrittenWitness ==
  /\ main.pc = "done"
  /\ \E c \in main.present : main.why[c] = "existed"
  /\ \E c \in Missing : main.why[c] = "written" /\ c \in disk
  /\ main.ok = Len(main.codes)

Rank(code) == CHOOSE k \in DOMAIN Alphabet : Alphabet[k] = code

\* the steps of main from one position to the next
PhaseSteps ==
  {<<"start", "resolving">>, <<"resolving", "access">>, <<"resolving", "aborted">>,
   <<"access", "downloading">>, <<"access", "done">>,
   <<"downloading", "writing">>, <<"downloading", "access">>, <<"downloading", "done">>,
   <<"writing", "access">>, <<"writing", "done">>}

InFlight == call.stage \in {"fetching", "reading"}

\* C22: main goes from reading the codes to the lookup of the parts, to the
\* loop over the codes and to the summary in that order; a request is issued
\* only when none is in flight; the parts are looked up one after another;
\* a download is started only when every part was answered or given up; and
\* the codes are taken one at a time in ascending order.
PhasesInOrderOneRequest ==
  [][/\ main'.pc = main.pc \/ <<main.pc, main'.pc>> \in PhaseSteps
     /\ requests' # requests => requests' = requests + 1 /\ ~InFlight
     /\ main'.pc = "resolving" =>
          /\ call'.kind = "json"
          /\ main'.part \in {main.part, main.part + 1}
          /\ Len(main'.answers) = main'.part - 1
     /\ main'.pc = "downloading" =>
          /\ call'.kind = "bytes"
          /\ Len(main'.answers) = Len(chunk(main'.codes, CodesPerChunk))
     /\ main'.i \in {main.i, main.i + 1}
     /\ \A j, k \in DOMAIN main'.codes :
          j < k => Rank(main'.codes[j]) < Rank(main'.codes[k])]_vars

\* both parts were looked up, the first code was counted and the download of
\* the second code is in flight
SecondDownloadWitness ==
  /\ main.pc = "downloading"
  /\ Len(main.answers) = 2
  /\ main.i = 2
  /\ call.kind = "bytes"
  /\ InFlight

\* C23: at most one request for the country extras is issued while the
\* component is mounted, whatever the answers are, and none when the object
\* loaded from storage has a key.
ExtraFetchedAtMostOnce ==
  /\ extra.requests <= 1
  /\ DOMAIN extra.loaded # {} => extra.requests = 0

\* C24: every record of the store has a boolean `visited` and a `photos`
\* sequence whose entries are all images.
RecordsWellFormed ==
  Mounted =>
    \A code \in DOMAIN userData :
      /\ HasOwn(userData, code, "visited")
      /\ userData[code].visited \in BOOLEAN
      /\ HasOwn(userData, code, "photos")
      /\ \A i \in DOMAIN userData[code].photos : userData[code].photos[i] \in Images

\* every record but the one of `code` is the same in both snapshots
KeepsOtherRecords(old, new, code) ==
  /\ DOMAIN new \ {code} = DOMAIN old \ {code}
  /\ \A c \in DOMAIN old \ {code} : new[c] = old[c]

\* every field but `photos` of the record of `code` is kept
KeepsOtherFields(old, new, code) ==
  code \in DOMAIN old =>
    \A f \in DOMAIN old[code] \ {"photos"} :
      HasOwn(new, code, f) /\ new[code][f] = old[code][f]

\* C25: a store update made while a batch is being compressed is applied to
\* the snapshot and leaves the locals of the upload alone, and the append of
\* the batch keeps everything the snapshot holds at that moment: the other
\* records, the other fields of the record and its photos, after which the
\* photos of the batch follow in selection order.
UpdatesDuringUploadKept ==
  [][/\ (upload.pc = "compressing" /\ upload'.pc = "compressing"
            /\ userData' # userData) =>
          /\ upload' = upload
          /\ userData' \in Updates(userData)
     /\ (upload.pc = "compressing" /\ upload'.pc = "done"
            /\ Len(GoodOf(upload.files)) > 0) =>
          /\ PhotosOf(userData', upload.code)
               = PhotosOf(userData, upload.code) \o UrlsOf(GoodOf(upload.files))
          /\ KeepsOtherRecords(userData, userData', upload.code)
          /\ KeepsOtherFields(userData, userData', upload.code)]_vars

\* the first of two files has settled and the latest step was a store update
\* that was saved: the record of the upload's code is visited and already
\* holds the photo of the second upload
UpdateDuringUploadWitness ==
  /\ upload.pc = "compressing"
  /\ upload.idx > 1
  /\ saved.result = "ok"
  /\ VisitedOf(userData, upload.code)
  /\ PhotosOf(userData, upload.code) = <<"img2">>

\* C26: every run ends, with the summary and the exit status or with the
\* early abort, whatever the endpoint does, as long as timers fire.
RunEventuallyEnds == <>Ended

====
